---------------------------- MODULE Spec2Model ----------------------------
(***************************************************************************)
(* Audio transcription service: the HTTP endpoint POST /transcribe        *)
(* (endpoints.py), the command line (cli.py) and the service they share   *)
(* (service.py), with the configuration constants of config.py; and the   *)
(* session state of the Streamlit frontend (frontend.py), SpecFrontend.    *)
(*                                                                         *)
(* One transcription request is in progress at a time (requests share no  *)
(* state in the code); pc is the position inside the running handler.     *)
(* Python values are records [type, s]: the type name and the string form *)
(* str() gives, so that None, "" and non-string values stay distinct.     *)
(***************************************************************************)
EXTENDS Integers, Sequences, FiniteSets, TLC

VARIABLES
    entry,          \* entry point of the running request
    pc,             \* position inside the handler
    content_type,   \* UploadFile.content_type (HTTP)
    size,           \* len(contents) (HTTP) or st_size of the file (path)
    audio_path,     \* args.audio_path (path based entry points)
    path_kind,      \* what the file system holds at audio_path
    save_to,        \* whether --save-to was given (CLI)
    options,        \* TranscriptionOptions of the request
    bodyRead,       \* the upload's body has been read (await file.read())
    handle,         \* the file handle of transcribe_path
    calls,          \* provider calls made for the running request
    kwargs,         \* the keyword arguments of the last provider call
    transcription,  \* <<response>> once the provider returned
    exc,            \* <<exception>> once something raised
    payload,        \* <<mapping>> once transcription_to_payload returned
    status,         \* HTTP status of the response, 0 while there is none
    detail,         \* HTTPException detail
    exitCode,       \* exit code of the CLI process, -1 while running
    stderr,         \* message parser.exit wrote
    stdout,         \* <<value>> print() wrote
    saved,          \* <<value>> written to the --save-to path
    \* frontend.py: the Streamlit session of one browser tab
    audio_file,          \* value of the audio input widget
    transcript,          \* st.session_state["transcript"]
    transcription_error, \* st.session_state["transcription_error"]
    raw_payload,         \* st.session_state["raw_payload"]
    insights,            \* st.session_state["insights"]
    insights_error,      \* st.session_state["insights_error"]
    clicked,             \* the button that caused the last rerun of the script
    reply                \* what the backend answered during that rerun

frontendVars == <<audio_file, transcript, transcription_error, raw_payload,
                  insights, insights_error, clicked, reply>>

backendVars == <<entry, pc, content_type, size, audio_path, path_kind, save_to,
                 options, bodyRead, handle, calls, kwargs, transcription, exc,
                 payload, status, detail, exitCode, stderr, stdout, saved>>

vars == <<backendVars, frontendVars>>

(***************************************************************************)
(* Python values                                                           *)
(***************************************************************************)
PyNone == [type |-> "NoneType", s |-> "None"]
PyStr(x) == [type |-> "str", s |-> x]
PyInt(x) == [type |-> "int", s |-> ToString(x)]
\* getattr/hasattr: the attribute does not exist
Absent == [type |-> "absent", s |-> ""]
EmptyMap == [k \in {} |-> PyNone]

\* Python truthiness of None and of strings (`if x:`)
Truthy(v) == v.type # "NoneType" /\ ~(v.type = "str" /\ v.s = "")

(***************************************************************************)
(* config.py                                                               *)
(***************************************************************************)
MiB == 1024 * 1024
MAX_UPLOAD_BYTES == 25 * 1024 * 1024
DEFAULT_MODEL == "gpt-4o-transcribe"
SUPPORTED_CONTENT_TYPES ==
    { "audio/mpeg", "audio/mp3", "audio/mp4", "audio/mpeg3", "audio/mpg",
      "audio/mpga", "audio/m4a", "audio/wav", "audio/webm" }

(***************************************************************************)
(* Bounds of the model                                                     *)
(***************************************************************************)
\* lengths MAX_UPLOAD_BYTES - d .. MAX_UPLOAD_BYTES + d around the ceiling
BoundaryDelta == 2
\* lengths MAX_UPLOAD_BYTES + q * MiB/4 above the ceiling (25.0 .. 30.0 MiB)
OverQuarters == 20

Lengths ==
    {0, 1, 10 * MiB, 30000000}
    \cup { MAX_UPLOAD_BYTES + d : d \in (0 - BoundaryDelta)..BoundaryDelta }
    \cup { MAX_UPLOAD_BYTES + q * (MiB \div 4) : q \in 0..OverQuarters }

ContentTypes ==
    {PyNone, PyStr("")}
    \cup { PyStr(c) : c \in SUPPORTED_CONTENT_TYPES }
    \cup { PyStr("audio/ogg"), PyStr("text/plain"), PyStr("Audio/MPEG") }

Paths == {"talk.mp3", "notes/memo.wav"}
PathKinds == {"missing", "dir", "file"}

OptionSet ==
    [ model : {DEFAULT_MODEL, "whisper-1"},
      response_format : {PyNone, PyStr(""), PyStr("json")},
      prompt : {PyNone, PyStr(""), PyStr("names: Walpole Road")} ]


(***************************************************************************)
(* Provider responses (the return value of audio.transcriptions.create is  *)
(* typed Any) and provider exceptions                                      *)
(***************************************************************************)
Resp(hasDump, dump, isDict, items, textAttr, repr) ==
    [ hasDump |-> hasDump, dump |-> dump, isDict |-> isDict, items |-> items,
      textAttr |-> textAttr, repr |-> repr ]

Responses ==
    { \* typed SDK objects: model_dump() and a text attribute
      Resp(TRUE, [text |-> PyStr("hello")], FALSE, EmptyMap,
           PyStr("hello"), "Transcription(text='hello')"),
      Resp(TRUE, [text |-> PyStr("hello"), duration |-> PyInt(3)], FALSE,
           EmptyMap, PyStr("hello"), "TranscriptionVerbose(text='hello')"),
      \* a typed object whose dump has no text, with and without a text attribute
      Resp(TRUE, [segments |-> PyStr("[]")], FALSE, EmptyMap,
           Absent, "Segments()"),
      Resp(TRUE, [segments |-> PyStr("[]")], FALSE, EmptyMap,
           PyStr("hidden"), "Segments(text='hidden')"),
      \* a dict subclass that also has model_dump
      Resp(TRUE, [text |-> PyStr("dumped")], TRUE, [text |-> PyStr("item")],
           Absent, "{'text': 'item'}"),
      \* plain mappings
      Resp(FALSE, EmptyMap, TRUE, [text |-> PyStr("hello")],
           Absent, "{'text': 'hello'}"),
      Resp(FALSE, EmptyMap, TRUE, [error |-> PyStr("boom")],
           Absent, "{'error': 'boom'}"),
      Resp(FALSE, EmptyMap, TRUE, [text |-> PyNone],
           Absent, "{'text': None}"),
      Resp(FALSE, EmptyMap, TRUE, [text |-> PyInt(7)],
           Absent, "{'text': 7}"),
      \* objects with a text attribute only
      Resp(FALSE, EmptyMap, FALSE, EmptyMap, PyStr("hello"), "<Obj hello>"),
      Resp(FALSE, EmptyMap, FALSE, EmptyMap, PyStr(""), "<Obj empty>"),
      Resp(FALSE, EmptyMap, FALSE, EmptyMap, PyNone, "<Obj None>"),
      Resp(FALSE, EmptyMap, FALSE, EmptyMap, PyInt(7), "<Obj 7>"),
      \* a bare string (response_format text, srt, vtt) and anything else
      Resp(FALSE, EmptyMap, FALSE, EmptyMap, Absent, "hello"),
      Resp(FALSE, EmptyMap, FALSE, EmptyMap, Absent, "42") }

Exc(type, msg) == [type |-> type, msg |-> msg]

ProviderErrors ==
    { Exc("APIConnectionError", <<"Connection error.">>),
      Exc("AuthenticationError", <<"Error code: 401 - invalid api key">>),
      Exc("RateLimitError", <<"Error code: 429 - rate limit reached">>),
      Exc("BadRequestError", <<"Error code: 400 - malformed audio">>) }

\* str(exc): the message the exception was raised with
StrExc(e) == e.msg

(***************************************************************************)
(* Pure functions of the code                                              *)
(***************************************************************************)
\* f"{n / (1024 * 1024):.1f}": n / 2^20 is exact in binary floating point, and
\* the format rounds the exact value to one decimal, ties to even
Tenths(n) ==
    LET q == (n * 10) \div MiB
        r == (n * 10) % MiB
    IN  IF 2 * r > MiB \/ (2 * r = MiB /\ q % 2 = 1) THEN q + 1 ELSE q

HumanSize(n) ==
    ToString(Tenths(n) \div 10) \o "." \o ToString(Tenths(n) % 10) \o " MB"

\* variant of UnsupportedType: the membership test without the truthiness guard
UnsupportedTypeNoNullGuard(ct) == ct.s \notin SUPPORTED_CONTENT_TYPES
\* endpoints.py: file.content_type and file.content_type not in SUPPORTED_CONTENT_TYPES
UnsupportedType(ct) == Truthy(ct) /\ ct.s \notin SUPPORTED_CONTENT_TYPES

\* variant of IsEmpty: the emptiness check left out
IsEmptyNever(n) == FALSE
\* endpoints.py: not contents
IsEmpty(n) == n = 0

\* variant of TooLarge: >= for >
TooLargeInclusive(n) == n >= MAX_UPLOAD_BYTES
\* len(contents) > MAX_UPLOAD_BYTES, file_size > MAX_UPLOAD_BYTES
TooLarge(n) == n > MAX_UPLOAD_BYTES

\* variant of build_kwargs: response_format tested against None only
build_kwargs_FormatNotNone(opts, file_handle) ==
    LET base == [file |-> file_handle, model |-> PyStr(opts.model)]
        withFormat ==
            IF opts.response_format # PyNone
            THEN base @@ [response_format |-> opts.response_format]
            ELSE base
    IN  IF Truthy(opts.prompt)
        THEN withFormat @@ [prompt |-> opts.prompt]
        ELSE withFormat

\* TranscriptionOptions.build_kwargs
build_kwargs(opts, file_handle) ==
    LET base == [file |-> file_handle, model |-> PyStr(opts.model)]
        withFormat ==
            IF Truthy(opts.response_format)
            THEN base @@ [response_format |-> opts.response_format]
            ELSE base
    IN  IF Truthy(opts.prompt)
        THEN withFormat @@ [prompt |-> opts.prompt]
        ELSE withFormat

\* getattr(transcription, "text", None)
GetTextAttr(t) == IF t.textAttr = Absent THEN PyNone ELSE t.textAttr

\* variant of transcription_to_payload: the mapping test before the dump test
transcription_to_payload_DictFirst(t) ==
    IF t.isDict THEN t.items
    ELSE IF t.hasDump THEN t.dump
    ELSE IF GetTextAttr(t) # PyNone THEN [text |-> GetTextAttr(t)]
    ELSE [text |-> PyStr(t.repr)]

\* variant of transcription_to_payload: the string fallback under another key
transcription_to_payload_Transcript(t) ==
    IF t.hasDump THEN t.dump
    ELSE IF t.isDict THEN t.items
    ELSE IF GetTextAttr(t) # PyNone THEN [text |-> GetTextAttr(t)]
    ELSE [transcript |-> PyStr(t.repr)]

\* service.py: transcription_to_payload
transcription_to_payload(t) ==
    IF t.hasDump THEN t.dump
    ELSE IF t.isDict THEN t.items
    ELSE IF GetTextAttr(t) # PyNone THEN [text |-> GetTextAttr(t)]
    ELSE [text |-> PyStr(t.repr)]

\* payload.get("text")
Get(m, k) == IF k \in DOMAIN m THEN m[k] ELSE PyNone

(***************************************************************************)
(* frontend.py: JSON values of the backend's answers                       *)
(***************************************************************************)
\* response.json(): None, a list or a dict (items: its keys and values)
JsonNull == [type |-> "NoneType", items |-> EmptyMap]
JsonList == [type |-> "list", items |-> EmptyMap]
JsonDict(m) == [type |-> "dict", items |-> m]

\* what a rerun learns from the backend: an exception of the conversion or of
\* the request (error is its str()), or the decoded JSON body
NoReply == [ok |-> FALSE, error |-> "no request", json |-> JsonNull]
Raised(msg) == [ok |-> FALSE, error |-> msg, json |-> JsonNull]
Answered(j) == [ok |-> TRUE, error |-> "", json |-> j]

(***************************************************************************)
(* Initial state: no request yet, a fresh browser session                  *)
(***************************************************************************)
DefaultOptions ==
    [model |-> DEFAULT_MODEL, response_format |-> PyNone, prompt |-> PyNone]

Init ==
    /\ entry = "idle"
    /\ pc = "idle"
    /\ content_type = PyNone
    /\ size = 0
    /\ audio_path = ""
    /\ path_kind = "missing"
    /\ save_to = FALSE
    /\ options = DefaultOptions
    /\ bodyRead = FALSE
    /\ handle = "none"
    /\ calls = 0
    /\ kwargs = EmptyMap
    /\ transcription = <<>>
    /\ exc = <<>>
    /\ payload = <<>>
    /\ status = 0
    /\ detail = <<>>
    /\ exitCode = -1
    /\ stderr = <<>>
    /\ stdout = <<>>
    /\ saved = <<>>
    /\ audio_file = PyNone
    /\ transcript = PyNone
    /\ transcription_error = PyNone
    /\ raw_payload = JsonNull
    /\ insights = JsonNull
    /\ insights_error = PyNone
    /\ clicked = "none"
    /\ reply = NoReply

\* A request is a single independent unit of work: the handlers keep their
\* state in locals and each builds its own service, so a behaviour follows one
\* request from its arrival to its response or exit
NewRequest(e, at) ==
    /\ pc = "idle"
    /\ entry' = e
    /\ pc' = at
    /\ bodyRead' = FALSE
    /\ handle' = "none"
    /\ calls' = 0
    /\ kwargs' = EmptyMap
    /\ transcription' = <<>>
    /\ exc' = <<>>
    /\ payload' = <<>>
    /\ status' = 0
    /\ detail' = <<>>
    /\ exitCode' = -1
    /\ stderr' = <<>>
    /\ stdout' = <<>>
    /\ saved' = <<>>
    /\ UNCHANGED frontendVars

(***************************************************************************)
(* endpoints.py: transcribe_endpoint                                       *)
(***************************************************************************)
\* POST /transcribe arrives with an upload and the query parameters
HttpRequest ==
    /\ NewRequest("http", "check_type")
    /\ content_type' \in ContentTypes
    /\ size' \in Lengths
    /\ options' \in OptionSet
    /\ audio_path' = ""
    /\ path_kind' = "missing"
    /\ save_to' = FALSE

\* the content-type check, before the body is read
HttpCheckContentType ==
    /\ entry = "http" /\ pc = "check_type"
    /\ IF UnsupportedType(content_type)
       THEN /\ status' = 415
            /\ detail' = <<"Unsupported content type: ", content_type.s>>
            /\ pc' = "done"
       ELSE /\ pc' = "read_body"
            /\ UNCHANGED <<status, detail>>
    /\ UNCHANGED frontendVars
    /\ UNCHANGED <<entry, content_type, size, audio_path, path_kind, save_to,
                   options, bodyRead, handle, calls, kwargs, transcription,
                   exc, payload, exitCode, stderr, stdout, saved>>

\* contents = await file.read(), the emptiness and size checks, then the
\* buffer, the service and the options are built
HttpReadBody ==
    /\ entry = "http" /\ pc = "read_body"
    /\ bodyRead' = TRUE
    /\ IF IsEmpty(size)
       THEN /\ status' = 400
            /\ detail' = <<"Uploaded file is empty.">>
            /\ pc' = "done"
       ELSE IF TooLarge(size)
       THEN /\ status' = 413
            /\ detail' = <<"File is ", HumanSize(size),
                           "; limit is 25 MB. Please compress or split it.">>
            /\ pc' = "done"
       ELSE /\ pc' = "call"
            /\ UNCHANGED <<status, detail>>
    /\ UNCHANGED frontendVars
    /\ UNCHANGED <<entry, content_type, size, audio_path, path_kind, save_to,
                   options, handle, calls, kwargs, transcription, exc,
                   payload, exitCode, stderr, stdout, saved>>

\* variant of HttpRespondError: the provider's bad-request error passed on as 400
HttpRespondErrorClassified ==
    /\ entry = "http" /\ pc = "raised"
    /\ status' = IF exc[1].type = "BadRequestError" THEN 400 ELSE 502
    /\ detail' = StrExc(exc[1])
    /\ pc' = "done"
    /\ UNCHANGED frontendVars
    /\ UNCHANGED <<entry, content_type, size, audio_path, path_kind, save_to,
                   options, bodyRead, handle, calls, kwargs, transcription,
                   exc, payload, exitCode, stderr, stdout, saved>>

\* except Exception as exc: raise HTTPException(status_code=502, detail=str(exc))
HttpRespondError ==
    /\ entry = "http" /\ pc = "raised"
    /\ status' = 502
    /\ detail' = StrExc(exc[1])
    /\ pc' = "done"
    /\ UNCHANGED frontendVars
    /\ UNCHANGED <<entry, content_type, size, audio_path, path_kind, save_to,
                   options, bodyRead, handle, calls, kwargs, transcription,
                   exc, payload, exitCode, stderr, stdout, saved>>

\* payload = transcription_to_payload(transcription); JSONResponse(content=payload)
HttpRespondOk ==
    /\ entry = "http" /\ pc = "returned"
    /\ payload' = <<transcription_to_payload(transcription[1])>>
    /\ status' = 200
    /\ pc' = "done"
    /\ UNCHANGED frontendVars
    /\ UNCHANGED <<entry, content_type, size, audio_path, path_kind, save_to,
                   options, bodyRead, handle, calls, kwargs, transcription,
                   exc, detail, exitCode, stderr, stdout, saved>>

(***************************************************************************)
(* service.py: TranscriptionService                                        *)
(***************************************************************************)
\* a caller of the library hands transcribe_stream an open stream
StreamRequest ==
    /\ NewRequest("stream", "call")
    /\ options' \in OptionSet
    /\ content_type' = PyNone
    /\ size' = 0
    /\ audio_path' = ""
    /\ path_kind' = "missing"
    /\ save_to' = FALSE

\* a caller of the library hands transcribe_path a path
PathRequest ==
    /\ NewRequest("path", "path_checks")
    /\ audio_path' \in Paths
    /\ path_kind' \in PathKinds
    /\ size' \in IF path_kind' = "file" THEN Lengths ELSE {0}
    /\ options' \in OptionSet
    /\ content_type' = PyNone
    /\ save_to' = FALSE

\* where transcribe_path's caller continues
AfterPath(ok) ==
    IF entry = "path" THEN "done"
    ELSE IF ok THEN "path_returned" ELSE "path_raised"

\* transcribe_path: exists(), is_file(), st_size against the ceiling
PathChecks ==
    /\ entry \in {"path", "cli"} /\ pc = "path_checks"
    /\ IF path_kind = "missing"
       THEN /\ exc' = <<Exc("FileNotFoundError",
                            <<"Audio file not found: ", audio_path>>)>>
            /\ pc' = AfterPath(FALSE)
       ELSE IF path_kind # "file"
       THEN /\ exc' = <<Exc("IsADirectoryError",
                            <<"Expected a file at: ", audio_path>>)>>
            /\ pc' = AfterPath(FALSE)
       ELSE IF TooLarge(size)
       THEN /\ exc' = <<Exc("ValueError",
                            <<"Audio file is ", HumanSize(size),
                              ", which exceeds the 25 MB upload limit.",
                              " Please compress or split the audio and retry.">>)>>
            /\ pc' = AfterPath(FALSE)
       ELSE /\ pc' = "open"
            /\ UNCHANGED exc
    /\ UNCHANGED frontendVars
    /\ UNCHANGED <<entry, content_type, size, audio_path, path_kind, save_to,
                   options, bodyRead, handle, calls, kwargs, transcription,
                   payload, status, detail, exitCode, stderr, stdout, saved>>

\* with audio_path.open("rb") as file_handle: the file passed exists() and
\* is_file(), and is opened for reading
PathOpen ==
    /\ entry \in {"path", "cli"} /\ pc = "open"
    /\ handle' = "open"
    /\ pc' = "call"
    /\ UNCHANGED frontendVars
    /\ UNCHANGED <<entry, content_type, size, audio_path, path_kind, save_to,
                   options, bodyRead, calls, kwargs, transcription, exc,
                   payload, status, detail, exitCode, stderr, stdout, saved>>

\* the handle transcribe_stream is given
FileHandle ==
    IF entry = "http" THEN [type |-> "BytesIO", s |-> "audio_upload.mp3"]
    ELSE IF entry = "stream" THEN [type |-> "BinaryIO", s |-> "stream"]
    ELSE [type |-> "BufferedReader", s |-> audio_path]

\* transcribe_stream: build_kwargs, then the one call of the provider
TranscribeStream ==
    /\ pc = "call"
    /\ kwargs' = build_kwargs(options, FileHandle)
    /\ calls' = calls + 1
    /\ pc' = "provider"
    /\ UNCHANGED frontendVars
    /\ UNCHANGED <<entry, content_type, size, audio_path, path_kind, save_to,
                   options, bodyRead, handle, transcription, exc, payload,
                   status, detail, exitCode, stderr, stdout, saved>>

\* audio.transcriptions.create returns
ProviderReturns(r) ==
    /\ pc = "provider"
    /\ transcription' = <<r>>
    /\ pc' = IF entry = "stream" THEN "done" ELSE "returned"
    /\ UNCHANGED frontendVars
    /\ UNCHANGED <<entry, content_type, size, audio_path, path_kind, save_to,
                   options, bodyRead, handle, calls, kwargs, exc, payload,
                   status, detail, exitCode, stderr, stdout, saved>>

\* variant of ProviderRaises: a failed call is made once more
ProviderRaisesRetry(e) ==
    /\ pc = "provider"
    /\ exc' = <<e>>
    /\ pc' = IF calls < 2 THEN "call"
             ELSE IF entry = "stream" THEN "done" ELSE "raised"
    /\ UNCHANGED frontendVars
    /\ UNCHANGED <<entry, content_type, size, audio_path, path_kind, save_to,
                   options, bodyRead, handle, calls, kwargs, transcription,
                   payload, status, detail, exitCode, stderr, stdout, saved>>

\* audio.transcriptions.create raises: the exception propagates
ProviderRaises(e) ==
    /\ pc = "provider"
    /\ exc' = <<e>>
    /\ pc' = IF entry = "stream" THEN "done" ELSE "raised"
    /\ UNCHANGED frontendVars
    /\ UNCHANGED <<entry, content_type, size, audio_path, path_kind, save_to,
                   options, bodyRead, handle, calls, kwargs, transcription,
                   payload, status, detail, exitCode, stderr, stdout, saved>>

\* variant of PathExit: the handle closed on return only
PathExitLeakOnError ==
    /\ entry \in {"path", "cli"} /\ pc \in {"returned", "raised"}
    /\ handle' = IF pc = "returned" THEN "closed" ELSE handle
    /\ pc' = AfterPath(pc = "returned")
    /\ UNCHANGED frontendVars
    /\ UNCHANGED <<entry, content_type, size, audio_path, path_kind, save_to,
                   options, bodyRead, calls, kwargs, transcription, exc,
                   payload, status, detail, exitCode, stderr, stdout, saved>>

\* the with statement's exit closes the handle, on return and on exception
PathExit ==
    /\ entry \in {"path", "cli"} /\ pc \in {"returned", "raised"}
    /\ handle' = "closed"
    /\ pc' = AfterPath(pc = "returned")
    /\ UNCHANGED frontendVars
    /\ UNCHANGED <<entry, content_type, size, audio_path, path_kind, save_to,
                   options, bodyRead, calls, kwargs, transcription, exc,
                   payload, status, detail, exitCode, stderr, stdout, saved>>

(***************************************************************************)
(* cli.py: main                                                            *)
(***************************************************************************)
\* --response-format is restricted by argparse's choices
CliOptionSet == { o \in OptionSet : o.response_format # PyStr("") }

\* parse_args, then the service and the options are built
CliRequest ==
    /\ NewRequest("cli", "path_checks")
    /\ audio_path' \in Paths
    /\ path_kind' \in PathKinds
    /\ size' \in IF path_kind' = "file" THEN Lengths ELSE {0}
    /\ options' \in CliOptionSet
    /\ save_to' \in BOOLEAN
    /\ content_type' = PyNone

Prog == "cli.py"

\* what parser.exit(2, ...) writes for an exception of transcribe_path
CliErrorMessage(e) == <<Prog, ": error: ">> \o StrExc(e) \o <<"\n">>

\* variant of MissingText: the test left out
MissingTextNever(text) == FALSE
\* the text is None test of main
MissingText(text) == text = PyNone

\* main after transcribe_path: the except clause, the payload, the missing
\* text exit, then --save-to (mkdir, write_text) or print
CliFinish ==
    /\ entry = "cli" /\ pc \in {"path_returned", "path_raised"}
    /\ pc' = "done"
    /\ IF pc = "path_raised"
       THEN /\ exitCode' = 2
            /\ stderr' = CliErrorMessage(exc[1])
            /\ UNCHANGED <<payload, exc, stdout, saved>>
       ELSE LET p == transcription_to_payload(transcription[1])
                text == Get(p, "text")
            IN  /\ payload' = <<p>>
                /\ IF MissingText(text)
                   THEN /\ exitCode' = 2
                        /\ stderr' = <<Prog,
                                       ": error: response missing text field.\n">>
                        /\ UNCHANGED <<exc, stdout, saved>>
                   ELSE IF ~save_to
                   THEN \* print(text)
                        /\ stdout' = <<text.s>>
                        /\ exitCode' = 0
                        /\ UNCHANGED <<exc, stderr, saved>>
                   ELSE IF text.type # "str"
                   THEN \* write_text: TypeError, caught nowhere
                        /\ exc' = <<Exc("TypeError",
                                        <<"data must be str, not ", text.type>>)>>
                        /\ exitCode' = 1
                        /\ stderr' = <<"Traceback (most recent call last):">>
                        /\ UNCHANGED <<stdout, saved>>
                   ELSE \E written \in BOOLEAN :
                          IF written
                          THEN /\ saved' = <<text.s>>
                               /\ exitCode' = 0
                               /\ UNCHANGED <<exc, stderr, stdout>>
                          ELSE \* mkdir or write_text raises OSError, caught nowhere
                               /\ exc' = <<Exc("OSError",
                                               <<"[Errno 13] Permission denied">>)>>
                               /\ exitCode' = 1
                               /\ stderr' = <<"Traceback (most recent call last):">>
                               /\ UNCHANGED <<stdout, saved>>
    /\ UNCHANGED frontendVars
    /\ UNCHANGED <<entry, content_type, size, audio_path, path_kind, save_to,
                   options, bodyRead, handle, calls, kwargs, transcription,
                   status, detail>>

(***************************************************************************)
(* The system                                                              *)
(***************************************************************************)
Next ==
    \/ HttpRequest
    \/ HttpCheckContentType
    \/ HttpReadBody
    \/ HttpRespondError
    \/ HttpRespondOk
    \/ StreamRequest
    \/ PathRequest
    \/ CliRequest
    \/ PathChecks
    \/ PathOpen
    \/ TranscribeStream
    \/ \E r \in Responses : ProviderReturns(r)
    \/ \E e \in ProviderErrors : ProviderRaises(e)
    \/ PathExit
    \/ CliFinish

Spec == Init /\ [][Next]_vars

(***************************************************************************)
(* frontend.py: main, one run of the script per widget interaction         *)
(***************************************************************************)
Recording == [type |-> "UploadedFile", s |-> "recording.wav"]

\* str.strip() on the texts the model uses
Strip(x) ==
    CASE x = "  hi  " -> "hi"
      [] x = "   " -> ""
      [] OTHER -> x

\* extract_text, for a payload that is a dict
extract_text(m) ==
    LET text == Get(m, "text")
    IN  IF text.type = "str" /\ Strip(text.s) # ""
        THEN PyStr(Strip(text.s))
        ELSE PyNone

\* payload.get on a value that is no dict: AttributeError
NoGetMessage(j) == "'" \o j.type \o "' object has no attribute 'get'"

\* truthiness of a decoded JSON value (`if response_data:`)
JsonTruthy(j) == j.type # "NoneType" /\ DOMAIN j.items # {}

\* convert_audio_to_mp3 and post_for_transcription: an exception (pydub
\* missing, the connection, raise_for_status) or the JSON body
TranscribeReplies ==
    { Raised("pydub is required to convert audio to MP3."),
      Raised("HTTPConnectionPool(host='localhost', port=8000): Max retries exceeded"),
      Raised("502 Server Error: Bad Gateway for url: http://localhost:8000/transcribe"),
      Raised(""),
      Answered(JsonDict([text |-> PyStr("hello")])),
      Answered(JsonDict([text |-> PyStr("hello"), duration |-> PyInt(3)])),
      Answered(JsonDict([text |-> PyStr("  hi  ")])),
      Answered(JsonDict([text |-> PyStr("   ")])),
      Answered(JsonDict([text |-> PyStr("")])),
      Answered(JsonDict([text |-> PyNone])),
      Answered(JsonDict([text |-> PyInt(7)])),
      Answered(JsonDict([error |-> PyStr("boom")])),
      Answered(JsonDict(EmptyMap)),
      Answered(JsonList),
      Answered(JsonNull) }

\* fetch_insights: an exception or the JSON body
InsightsReplies ==
    { Raised("HTTPConnectionPool(host='localhost', port=8000): Max retries exceeded"),
      Raised("500 Server Error: Internal Server Error for url: http://localhost:8000/insights"),
      Answered(JsonDict([response |->
          JsonDict([insights |-> PyStr("[...]"), themes |-> PyStr("[...]")])])),
      Answered(JsonDict([response |-> JsonDict(EmptyMap)])),
      Answered(JsonDict([response |-> JsonNull])),
      Answered(JsonDict(EmptyMap)),
      Answered(JsonList) }

\* the user records audio: a rerun with no button clicked
RecordAudio ==
    /\ audio_file = PyNone
    /\ audio_file' = Recording
    /\ clicked' = "none"
    /\ reply' = NoReply
    /\ UNCHANGED <<transcript, transcription_error, raw_payload, insights,
                   insights_error>>
    /\ UNCHANGED backendVars

\* the user removes the recording: a rerun with no button clicked
ClearAudio ==
    /\ audio_file # PyNone
    /\ audio_file' = PyNone
    /\ clicked' = "none"
    /\ reply' = NoReply
    /\ UNCHANGED <<transcript, transcription_error, raw_payload, insights,
                   insights_error>>
    /\ UNCHANGED backendVars

\* the body of `if transcribe_clicked:` run on the session values t0, e0, r0:
\* a key the body does not assign keeps that value
TranscribeRerun(t0, e0, r0) ==
    /\ audio_file # PyNone          \* the button is disabled without audio
    /\ clicked' = "transcribe"
    /\ \E r \in TranscribeReplies :
         /\ reply' = r
         /\ IF audio_file = PyNone
            THEN /\ transcription_error' =
                        PyStr("No audio captured. Please record again.")
                 /\ transcript' = t0
                 /\ raw_payload' = r0
            ELSE IF ~r.ok
            THEN \* except Exception as exc, before the payload was stored
                 /\ transcription_error' = PyStr(r.error)
                 /\ transcript' = t0
                 /\ raw_payload' = r0
            ELSE IF r.json.type # "dict"
            THEN \* extract_text raises on payload.get
                 /\ raw_payload' = r.json
                 /\ transcription_error' = PyStr(NoGetMessage(r.json))
                 /\ transcript' = t0
            ELSE IF Truthy(extract_text(r.json.items))
            THEN /\ raw_payload' = r.json
                 /\ transcript' = extract_text(r.json.items)
                 /\ transcription_error' = e0
            ELSE /\ raw_payload' = r.json
                 /\ transcription_error' = PyStr(
                        "Received a response but could not find transcription text. "
                        \o "Check the raw payload for details.")
                 /\ transcript' = t0
    /\ UNCHANGED <<audio_file, insights, insights_error>>
    /\ UNCHANGED backendVars

\* variant of TranscribeClick: only the error is cleared before the attempt
TranscribeClick_KeepsTranscript ==
    TranscribeRerun(transcript, PyNone, raw_payload)

\* "Send to Transcribe": the three keys are set to None, then the attempt
TranscribeClick ==
    TranscribeRerun(PyNone, PyNone, JsonNull)

\* insights_data.get("response", {})
ResponseData(j) ==
    IF "response" \in DOMAIN j.items THEN j.items["response"]
    ELSE JsonDict(EmptyMap)

\* "Generate Insights": enabled while a transcript is shown
InsightsClick ==
    /\ transcript # PyNone
    /\ clicked' = "insights"
    /\ \E r \in InsightsReplies :
         /\ reply' = r
         /\ IF ~r.ok
            THEN /\ insights_error' = PyStr(r.error)
                 /\ insights' = JsonNull
            ELSE IF r.json.type # "dict"
            THEN /\ insights_error' = PyStr(NoGetMessage(r.json))
                 /\ insights' = JsonNull
            ELSE IF JsonTruthy(ResponseData(r.json))
            THEN /\ insights' = ResponseData(r.json)
                 /\ insights_error' = PyNone
            ELSE /\ insights_error' = PyStr(
                        "Received a response but could not find insights data.")
                 /\ insights' = JsonNull
    /\ UNCHANGED <<audio_file, transcript, transcription_error, raw_payload>>
    /\ UNCHANGED backendVars

FrontendNext ==
    \/ RecordAudio
    \/ ClearAudio
    \/ TranscribeClick
    \/ InsightsClick

SpecFrontend == Init /\ [][FrontendNext]_vars

(***************************************************************************)
(* Properties                                                              *)
(***************************************************************************)
\* the upload ceiling as the specification states it: 25 MiB
Ceiling == 25 * 1024 * 1024

\* a declared, non-empty content type outside the allow-list
DisallowedType ==
    /\ content_type.type = "str"
    /\ content_type.s # ""
    /\ content_type.s \notin SUPPORTED_CONTENT_TYPES

\* C1: no provider call is made, and no transcription result exists, for an
\* input the validation rejects: at POST /transcribe a disallowed content
\* type, an empty body or a body over 25 MiB; in transcribe_path a missing
\* path, a directory or a file over 25 MiB. A rejected request has made no call.
C1_NoCallForRejectedInput ==
    /\ (calls > 0 \/ Len(transcription) > 0 \/ Len(payload) > 0) =>
          /\ entry = "http" =>
                ~DisallowedType /\ size # 0 /\ size <= Ceiling
          /\ entry \in {"path", "cli"} =>
                path_kind = "file" /\ size <= Ceiling
    /\ status \in {400, 413, 415} =>
          calls = 0 /\ Len(transcription) = 0 /\ Len(payload) = 0
    /\ (entry \in {"path", "cli"} /\ pc # "idle"
          /\ (path_kind # "file" \/ size > Ceiling)) =>
          calls = 0 /\ Len(transcription) = 0

\* the CLI was given a file over the ceiling: rejected, no provider call made
C1_Witness ==
    /\ entry = "cli" /\ pc = "done"
    /\ path_kind = "file" /\ size > Ceiling
    /\ Len(exc) = 1 /\ exc[1].type = "ValueError"
    /\ calls = 0

\* the string form of t tenths: "30.0" for 300
OneDecimal(t) == ToString(t \div 10) \o "." \o ToString(t % 10)

\* t tenths of a MiB is n bytes rounded to one decimal place
NearestTenth(t, n) ==
    /\ 2 * (10 * n - t * 1048576) <= 1048576
    /\ 2 * (t * 1048576 - 10 * n) <= 1048576

\* C2: at POST /transcribe with an accepted content type, an empty body gets
\* 400; a body of 1 byte up to exactly 25 MiB passes the size check and the
\* provider is called; a body over 25 MiB gets 413 and a message that states
\* the size in MB to one decimal place and the 25 MB limit.
C2_BodyLengthOutcome ==
    (entry = "http" /\ pc = "done" /\ ~DisallowedType) =>
        /\ size = 0 => status = 400 /\ calls = 0
        /\ (0 < size /\ size <= Ceiling) => calls = 1 /\ status \in {200, 502}
        /\ size > Ceiling =>
              /\ status = 413 /\ calls = 0
              /\ Len(detail) = 3
              /\ detail[1] = "File is "
              /\ \E t \in 250..400 :
                    NearestTenth(t, size) /\ detail[2] = OneDecimal(t) \o " MB"
              /\ detail[3] = "; limit is 25 MB. Please compress or split it."
        /\ size = 30 * 1024 * 1024 => detail[2] = "30.0 MB"

\* a 30 MiB upload was answered 413 with "30.0 MB"
C2_Witness ==
    /\ entry = "http" /\ pc = "done"
    /\ size = 30 * 1024 * 1024
    /\ status = 413 /\ detail[2] = "30.0 MB"

\* C3: transcribe_path (and so the CLI) rejects a file of zero bytes with an
\* empty-input error before the file is opened and before any provider call.
C3_EmptyFileRejectedOnPath ==
    (entry \in {"path", "cli"} /\ path_kind = "file" /\ size = 0) =>
        /\ handle = "none"
        /\ calls = 0
        /\ pc \notin {"open", "call", "provider", "returned", "raised"}

\* C4 as stated: every declared (non-null) content type outside the allow-list
\* gets 415 before the body is read; an allow-listed or absent one passes.
C4_EveryNonNullTypeChecked ==
    (entry = "http" /\ pc # "check_type") =>
        IF content_type # PyNone /\ content_type.s \notin SUPPORTED_CONTENT_TYPES
        THEN status = 415 /\ ~bodyRead /\ calls = 0
        ELSE status # 415

\* C4: every declared, non-empty content type outside the allow-list gets 415
\* and the body is never read, whatever its length; an allow-listed content
\* type, an absent one and an empty one pass the check and the body is read.
C4_ContentTypeCheck ==
    (entry = "http" /\ pc # "check_type") =>
        IF DisallowedType
        THEN /\ status = 415 /\ pc = "done"
             /\ detail = <<"Unsupported content type: ", content_type.s>>
             /\ ~bodyRead /\ calls = 0
        ELSE /\ status # 415
             /\ pc = "read_body" \/ bodyRead

\* a disallowed type with a body over the ceiling was answered 415, body unread
C4_Witness ==
    /\ entry = "http" /\ pc = "done"
    /\ content_type = PyStr("audio/ogg") /\ size > Ceiling
    /\ status = 415 /\ ~bodyRead

\* the running request passed the validation of its entry point
PassedValidation ==
    \/ entry = "stream" /\ pc # "idle"
    \/ entry = "http" /\ bodyRead /\ ~DisallowedType /\ size # 0 /\ size <= Ceiling
    \/ entry \in {"path", "cli"} /\ pc \notin {"idle", "path_checks"}
          /\ path_kind = "file" /\ size <= Ceiling

\* C5: a request that passed validation makes exactly one provider call,
\* whatever its entry point: once the call is under way or over, one call has
\* been made, a finished request has made one, and a provider failure is
\* followed by no second call.
C5_ExactlyOneProviderCall ==
    /\ calls <= 1
    /\ pc \in {"provider", "returned", "raised"} => calls = 1
    /\ (PassedValidation /\ pc \in {"done", "path_returned", "path_raised"}) =>
          calls = 1
    /\ (Len(exc) = 1 /\ exc[1] \in ProviderErrors) =>
          calls = 1 /\ pc \notin {"call", "provider"}

\* a provider failure at the endpoint, answered after a single call
C5_Witness ==
    /\ entry = "http" /\ pc = "done"
    /\ Len(exc) = 1 /\ exc[1] \in ProviderErrors
    /\ calls = 1

\* C6: the handle transcribe_path opens is closed once the call is over, after
\* the provider returned and after it raised; it is open only while the call
\* runs; and none is opened when a path check rejects the input.
C6_HandleClosedOnEveryExit ==
    /\ handle = "open" =>
          entry \in {"path", "cli"}
          /\ pc \in {"call", "provider", "returned", "raised"}
    /\ (entry \in {"path", "cli"}
          /\ pc \in {"done", "path_returned", "path_raised"}) =>
          IF path_kind = "file" /\ size <= Ceiling
          THEN handle = "closed"
          ELSE handle = "none"
    /\ (entry \in {"path", "cli"} /\ pc # "idle"
          /\ (path_kind # "file" \/ size > Ceiling)) =>
          handle = "none"

\* transcribe_path ended by a provider exception, the handle closed
C6_Witness ==
    /\ entry = "path" /\ pc = "done"
    /\ Len(exc) = 1 /\ exc[1] \in ProviderErrors
    /\ handle = "closed"

\* C7: a provider failure at POST /transcribe is answered 502 with the
\* provider's error text as detail, whatever the kind of failure; never 200
\* and never one of the validation statuses.
C7_ProviderFailureIs502 ==
    /\ (entry = "http" /\ pc = "done" /\ Len(exc) = 1) =>
          /\ exc[1] \in ProviderErrors
          /\ status = 502
          /\ detail = exc[1].msg
          /\ Len(payload) = 0
    /\ (entry = "http" /\ status = 502) => Len(exc) = 1

\* the provider refused the audio (its own 400) and the endpoint answered 502
C7_Witness ==
    /\ entry = "http" /\ pc = "done"
    /\ Len(exc) = 1 /\ exc[1].type = "BadRequestError"
    /\ status = 502 /\ detail = <<"Error code: 400 - malformed audio">>

\* the provider call succeeded and the normalized payload has a text value
CliHasText ==
    /\ Len(transcription) = 1
    /\ Len(payload) = 1
    /\ Get(payload[1], "text") # PyNone

\* C8 as stated: main exits 0 exactly when the provider call succeeded and the
\* payload has a text value, the text then printed or written; it exits 2 with
\* a message in every other case.
C8_ExitZeroIffText ==
    (entry = "cli" /\ pc = "done") =>
        /\ exitCode = 0 <=> CliHasText
        /\ exitCode = 0 => Len(stdout) = 1 \/ Len(saved) = 1
        /\ exitCode # 0 => exitCode = 2 /\ Len(stderr) > 0

\* C8: main exits 2 with a message exactly when transcribe_path raised (a
\* path check or the provider; for a missing path the message names the path)
\* or the payload has no text. Otherwise it exits 0 with the text printed, or
\* written to --save-to, unless writing to --save-to raises (the text is not a
\* string, or the path cannot be written): that exception is caught nowhere
\* and the process ends with a traceback and exit code 1.
C8_ExitCodes ==
    (entry = "cli" /\ pc = "done") =>
        /\ exitCode \in {0, 1, 2}
        /\ exitCode = 2 <=> ~CliHasText
        /\ exitCode = 2 => Len(stderr) > 0 /\ Len(stdout) = 0 /\ Len(saved) = 0
        /\ path_kind = "missing" =>
              exitCode = 2 /\ \E i \in 1..Len(stderr) : stderr[i] = audio_path
        /\ (CliHasText /\ ~save_to) =>
              exitCode = 0 /\ stdout = <<Get(payload[1], "text").s>>
                           /\ Len(saved) = 0
        /\ (CliHasText /\ save_to /\ Get(payload[1], "text").type # "str") =>
              exitCode = 1
        /\ exitCode = 0 =>
              /\ CliHasText
              /\ IF save_to
                 THEN saved = <<Get(payload[1], "text").s>> /\ Len(stdout) = 0
                 ELSE Len(saved) = 0
        /\ exitCode = 1 =>
              /\ CliHasText /\ save_to
              /\ Len(saved) = 0 /\ Len(stdout) = 0
              /\ Len(exc) = 1 /\ exc[1].type \in {"TypeError", "OSError"}

\* the transcript of a successful call was written to the --save-to path
C8_Witness ==
    /\ entry = "cli" /\ pc = "done"
    /\ save_to /\ exitCode = 0
    /\ saved = <<"hello">>

\* C9 as stated: a dump-capable response yields its dump; else a mapping is
\* returned unchanged; else a response exposing a text attribute yields
\* {text: that attribute's value}; else {text: string form}.
C9_TextAttributeAlwaysWrapped ==
    Len(payload) = 1 =>
        LET t == transcription[1]
            p == payload[1]
        IN  IF t.hasDump THEN p = t.dump
            ELSE IF t.isDict THEN p = t.items
            ELSE IF t.textAttr # Absent THEN p = [text |-> t.textAttr]
            ELSE p = [text |-> PyStr(t.repr)]

\* C9: a dump-capable response yields its dump verbatim; else a mapping is
\* returned unchanged; else a response whose text attribute exists and is not
\* None yields {text: that value}; else (no text attribute, or one that is
\* None) {text: string form of the response}. An earlier case decides alone.
C9_OrderedFallback ==
    Len(payload) = 1 =>
        LET t == transcription[1]
            p == payload[1]
        IN  IF t.hasDump THEN p = t.dump
            ELSE IF t.isDict THEN p = t.items
            ELSE IF t.textAttr # Absent /\ t.textAttr # PyNone
                 THEN p = [text |-> t.textAttr]
            ELSE p = [text |-> PyStr(t.repr)]

\* a response that is a mapping and has a dump was normalized to its dump
C9_Witness ==
    /\ Len(payload) = 1
    /\ transcription[1].hasDump /\ transcription[1].isDict
    /\ payload[1] = [text |-> PyStr("dumped")]

\* C10 as stated: the payload has a text key for every response shape, so
\* every 200 response of POST /transcribe carries a text field.
C10_PayloadAlwaysHasText ==
    Len(payload) = 1 => "text" \in DOMAIN payload[1]

\* C10: the payload has a text key for every response that neither has a dump
\* nor is a mapping; for a dump-capable response or a mapping it has one
\* exactly when the dump or the mapping has, so a 200 response of
\* POST /transcribe carries a text field only then.
C10_TextKeyUnlessDumpOrMappingLacksIt ==
    Len(payload) = 1 =>
        LET t == transcription[1]
            p == payload[1]
        IN  /\ (~t.hasDump /\ ~t.isDict) => "text" \in DOMAIN p
            /\ t.hasDump => ("text" \in DOMAIN p <=> "text" \in DOMAIN t.dump)
            /\ (~t.hasDump /\ t.isDict) =>
                  ("text" \in DOMAIN p <=> "text" \in DOMAIN t.items)
            /\ entry = "http" => status = 200

\* a bare string came back and the 200 response carries it under text
C10_Witness ==
    /\ entry = "http" /\ status = 200
    /\ ~transcription[1].hasDump /\ ~transcription[1].isDict
    /\ transcription[1].textAttr = Absent
    /\ payload[1] = [text |-> PyStr("hello")]

\* C11: the argument set build_kwargs returns always holds the handle under
\* file and the model identifier under model; it holds response_format exactly
\* when the option is neither None nor empty, with its exact value; prompt
\* exactly when the option is neither None nor empty, with its exact value;
\* and no other key.
C11_KwargsOmissionLaw ==
    calls > 0 =>
        /\ DOMAIN kwargs \subseteq {"file", "model", "response_format", "prompt"}
        /\ "file" \in DOMAIN kwargs /\ kwargs["file"] = FileHandle
        /\ "model" \in DOMAIN kwargs /\ kwargs["model"] = PyStr(options.model)
        /\ "response_format" \in DOMAIN kwargs <=>
              options.response_format \notin {PyNone, PyStr("")}
        /\ "response_format" \in DOMAIN kwargs =>
              kwargs["response_format"] = options.response_format
        /\ "prompt" \in DOMAIN kwargs <=> options.prompt \notin {PyNone, PyStr("")}
        /\ "prompt" \in DOMAIN kwargs => kwargs["prompt"] = options.prompt

\* an empty response_format was left out and a prompt passed on
C11_Witness ==
    /\ calls = 1
    /\ options.response_format = PyStr("")
    /\ options.prompt = PyStr("names: Walpole Road")
    /\ DOMAIN kwargs = {"file", "model", "prompt"}
    /\ kwargs["prompt"] = PyStr("names: Walpole Road")

\* C12: in the frontend session, after any sequence of transcribe and insights
\* clicks and any backend answers, transcript and transcription_error are never
\* both set; transcript is set only if raw_payload is; and a transcribe click
\* starts from the three keys cleared: after a failed attempt no transcript and
\* no payload is left, and a transcript shown after a click is the stripped
\* text of that click's payload.
C12_SessionStateConsistent ==
    /\ ~(transcript # PyNone /\ transcription_error # PyNone)
    /\ transcript # PyNone => raw_payload # JsonNull
    /\ clicked = "transcribe" =>
          /\ ~reply.ok =>
                /\ transcript = PyNone
                /\ raw_payload = JsonNull
                /\ transcription_error = PyStr(reply.error)
          /\ reply.ok => raw_payload = reply.json
          /\ transcript = PyNone => transcription_error # PyNone
          /\ transcript # PyNone =>
                /\ reply.ok /\ reply.json.type = "dict"
                /\ "text" \in DOMAIN reply.json.items
                /\ reply.json.items["text"].type = "str"
                /\ transcript = PyStr(Strip(reply.json.items["text"].s))
                /\ transcript.s # ""

\* a transcript had been shown (insights were generated from it), then a
\* transcribe attempt failed: no transcript is left, the error is set
C12_Witness ==
    /\ clicked = "transcribe" /\ ~reply.ok
    /\ insights # JsonNull
    /\ transcript = PyNone /\ raw_payload = JsonNull
    /\ transcription_error # PyNone

=============================================================================
